---- MODULE Spec2Model ----
(***************************************************************************)
(* Model of bzlgen's Workspace (path model, label resolution, buildozer    *)
(* invocation), its TypeScript generator and the CLI path guard.           *)
(*                                                                         *)
(* Strings are sequences of tokens: the punctuation characters             *)
(* "." "/" "@" ":" "-" "_" are one token each and every maximal            *)
(* alphanumeric run ("src", "ts", "lodash", ...) is one token, so that     *)
(* startsWith, endsWith, split, normalize, join and parse are computed on  *)
(* the characters that decide them.  'src/b.ts' is                         *)
(* <<"src", "/", "b", ".", "ts">>.                                         *)
(***************************************************************************)
EXTENDS Integers, Sequences, FiniteSets, TLC

(***************************************************************************)
(* String primitives                                                       *)
(***************************************************************************)
Punct == {".", "/", "@", ":", "-", "_"}

StartsWith(s, p) == Len(s) >= Len(p) /\ SubSeq(s, 1, Len(p)) = p

EndsWith(s, p) == Len(s) >= Len(p) /\ SubSeq(s, Len(s) - Len(p) + 1, Len(s)) = p

Last(s) == s[Len(s)]

Front(s) == SubSeq(s, 1, Len(s) - 1)

Range(s) == {s[i] : i \in 1..Len(s)}

\* String.prototype.split(sep) for a one-character separator: the sequence
\* of the pieces between separators (always at least one piece).
RECURSIVE SplitAcc(_, _, _, _)
SplitAcc(s, sep, cur, acc) ==
  IF s = <<>> THEN Append(acc, cur)
  ELSE IF Head(s) = sep THEN SplitAcc(Tail(s), sep, <<>>, Append(acc, cur))
  ELSE SplitAcc(Tail(s), sep, Append(cur, Head(s)), acc)

Split(s, sep) == SplitAcc(s, sep, <<>>, <<>>)

\* Array.prototype.join(sep)
RECURSIVE JoinWith(_, _)
JoinWith(parts, sep) ==
  IF parts = <<>> THEN <<>>
  ELSE IF Len(parts) = 1 THEN parts[1]
  ELSE parts[1] \o <<sep>> \o JoinWith(Tail(parts), sep)

Dot == <<".">>
DotDot == <<".", ".">>
TsExt == <<".", "ts">>
SpecTsExt == <<".", "spec", ".", "ts">>

(***************************************************************************)
(* node's posix path module                                                *)
(***************************************************************************)
isAbsolute(path) == path # <<>> /\ path[1] = "/"

\* normalizeString: drops empty and '.' segments, resolves '..' against the
\* segment before it, keeps a leading '..' only when allowAboveRoot.
RECURSIVE normalizeString(_, _, _)
normalizeString(segs, allowAboveRoot, out) ==
  IF segs = <<>> THEN out
  ELSE LET s == Head(segs) IN
    IF s = <<>> \/ s = Dot THEN normalizeString(Tail(segs), allowAboveRoot, out)
    ELSE IF s = DotDot THEN
      IF out # <<>> /\ Last(out) # DotDot
        THEN normalizeString(Tail(segs), allowAboveRoot, Front(out))
      ELSE IF allowAboveRoot
        THEN normalizeString(Tail(segs), allowAboveRoot, Append(out, s))
      ELSE normalizeString(Tail(segs), allowAboveRoot, out)
    ELSE normalizeString(Tail(segs), allowAboveRoot, Append(out, s))

normalizeParts(path, body) ==
  LET rel == IF body = <<>> /\ ~isAbsolute(path) THEN Dot ELSE body
      out == IF rel # <<>> /\ Last(path) = "/" THEN Append(rel, "/") ELSE rel
  IN IF isAbsolute(path) THEN <<"/">> \o out ELSE out

normalize(path) ==
  IF path = <<>> THEN Dot
  ELSE normalizeParts(path,
         JoinWith(normalizeString(Split(path, "/"), ~isAbsolute(path), <<>>), "/"))

\* path.join(a, b): the non-empty arguments joined by '/', then normalized
join(a, b) ==
  LET parts == SelectSeq(<<a, b>>, LAMBDA p : p # <<>>)
  IN IF parts = <<>> THEN Dot ELSE normalize(JoinWith(parts, "/"))

\* index of the last "/" of a string, 0 when there is none
RECURSIVE LastIndexOf(_, _, _)
LastIndexOf(s, c, i) ==
  IF i = 0 THEN 0 ELSE IF s[i] = c THEN i ELSE LastIndexOf(s, c, i - 1)

\* path.parse(path): dir, base, name and ext of a path (trailing
\* separators are not produced by any caller and are not handled)
parseExt(dir, base, d) ==
  [dir |-> dir,
   base |-> base,
   name |-> IF d > 1 /\ base # DotDot THEN SubSeq(base, 1, d - 1) ELSE base,
   ext |-> IF d > 1 /\ base # DotDot THEN SubSeq(base, d, Len(base)) ELSE <<>>]

parseBase(dir, base) == parseExt(dir, base, LastIndexOf(base, ".", Len(base)))

parseAt(path, k) ==
  parseBase(IF k = 0 THEN <<>> ELSE IF k = 1 THEN <<"/">> ELSE SubSeq(path, 1, k - 1),
            SubSeq(path, k + 1, Len(path)))

parse(path) == parseAt(path, LastIndexOf(path, "/", Len(path)))

\* lodash.kebabCase: the words of the string, joined by '-' (the tokens of
\* the model are lower-case words, so lower-casing changes nothing)
kebabCase(s) == JoinWith(SelectSeq(Split(
                  [i \in 1..Len(s) |-> IF s[i] \in Punct THEN "/" ELSE s[i]], "/"),
                  LAMBDA w : w # <<>>), "-")

\* String.prototype.replace(/-/g, sep)
replaceDashes(s, sep) ==
  JoinWith(Split(s, "-"), IF sep = <<>> THEN "-" ELSE sep[1])

(***************************************************************************)
(* Label: an address in the build graph, '@repository//package:target'.    *)
(* The target defaults to the last segment of the package, and the         *)
(* canonical string leaves such a default target out.                      *)
(***************************************************************************)
RECURSIVE IndexOf(_, _, _)
IndexOf(s, c, i) ==
  IF i > Len(s) THEN 0 ELSE IF s[i] = c THEN i ELSE IndexOf(s, c, i + 1)

\* index of the first '//' of a string, 0 when there is none
RECURSIVE IndexOfSlashSlash(_, _)
IndexOfSlashSlash(s, i) ==
  IF i >= Len(s) THEN 0
  ELSE IF s[i] = "/" /\ s[i + 1] = "/" THEN i ELSE IndexOfSlashSlash(s, i + 1)

LastSegment(pkg) == Last(Split(pkg, "/"))

Label_ofParts(repo, rest, c) ==
  [repository |-> repo,
   package |-> IF c = 0 THEN rest ELSE SubSeq(rest, 1, c - 1),
   target |-> IF c = 0 THEN LastSegment(rest) ELSE SubSeq(rest, c + 1, Len(rest))]

Label_ofRest(repo, rest) == Label_ofParts(repo, rest, IndexOf(rest, ":", 1))

Label_at(str, i) ==
  Label_ofRest(IF i > 1 /\ str[1] = "@" THEN SubSeq(str, 2, i - 1) ELSE <<>>,
               SubSeq(str, i + 2, Len(str)))

Label_parseAbsolute(str) == Label_at(str, IndexOfSlashSlash(str, 1))

Label_toString(label) ==
  (IF label.repository = <<>> THEN <<>> ELSE <<"@">> \o label.repository)
  \o <<"/", "/">> \o label.package
  \o (IF label.target = LastSegment(label.package) THEN <<>> ELSE <<":">> \o label.target)

\* the JavaScript value undefined, where a Label is expected
undefined == [undefined |-> TRUE]

(***************************************************************************)
(* State                                                                   *)
(***************************************************************************)
VARIABLES
  cliArg,       \* the <path> positional as typed on the command line
  flags,        \* Workspace.flags (path is set by the positional's coerce)
  fs,           \* the source tree: entries [path, kind], in readdir order
  buildFile,    \* the build file at the analysed path: "absent", "old", "empty", "edited"
  cmdFile,      \* the buildozer command file: NoFile or its lines
  listing,      \* Workspace.listing: Unread or the cached top-level listing
  fileQueryResultCache, \* Workspace.fileQueryResultCache: path -> Label
  commands,     \* Buildozer: the commands accumulated so far
  pc,           \* position of the run
  tsFiles,      \* generate: the files of the rule
  fileIdx,      \* generate: index in tsFiles of the file being processed
  deps,         \* generate: the Set<string> of dependency labels, in insertion order
  filesRead,    \* absolute paths handed to readFileSync so far
  calls,        \* the resolveLabelFromModuleSpecifier calls of the pass, in order
  editorRuns,   \* exit codes of the editor subprocesses run
  logged,       \* what the logger was asked to print: <<level, message>>
  results       \* the calls made on the Workspace from outside, with what they
                \* returned, and the changes of the tree between them, in order

vars == <<cliArg, flags, fs, buildFile, cmdFile, listing, fileQueryResultCache,
          commands, pc, tsFiles, fileIdx, deps, filesRead,
          calls, editorRuns, logged, results>>

Unread == <<"<unread>">>
NoFile == <<"<no file>">>

(***************************************************************************)
(* The file system, as fs and node's shelljs see it                        *)
(***************************************************************************)
\* Workspace.getAbsolutePath
getAbsolutePath == join(flags.base_dir, flags.path)

\* Workspace.getBuildFilePath (the analysed path is a directory in every run
\* of the model)
getBuildFilePath == join(getAbsolutePath, flags.build_file_name)

buildozerCommandsFilePath == join(flags.base_dir, flags.buildozer_commands_file)

\* lstatSync(path): "file", "dir", or "none" when lstatSync throws ENOENT
lstatSync(path) ==
  LET hits == SelectSeq(fs, LAMBDA e : e.path = path)
  IN IF hits # <<>> THEN hits[1].kind
     ELSE IF path = getBuildFilePath /\ buildFile # "absent" THEN "file"
     ELSE IF flags.buildozer_commands_file # <<>> /\ path = buildozerCommandsFilePath
             /\ cmdFile # NoFile THEN "file"
     ELSE "none"

\* readdirSync(dir): the names of the entries of a directory
readdirSync(dir) ==
  LET MapBase(s) == [i \in 1..Len(s) |-> parse(s[i].path).base]
      src == MapBase(SelectSeq(fs, LAMBDA e : e.path # dir /\ parse(e.path).dir = dir))
      bf == IF buildFile # "absent" /\ parse(getBuildFilePath).dir = dir
              THEN <<flags.build_file_name>> ELSE <<>>
      cf == IF cmdFile # NoFile /\ flags.buildozer_commands_file # <<>>
               /\ parse(buildozerCommandsFilePath).dir = dir
              THEN <<parse(buildozerCommandsFilePath).base>> ELSE <<>>
  IN bf \o cf \o src

(***************************************************************************)
(* Workspace: the path model                                               *)
(***************************************************************************)
\* mutant: the top level is listed again on every call
ListingReread == readdirSync(flags.base_dir)

\* the listing isWorkspaceRelative works with: the cached one, or the one
\* it reads (and caches) on its first call
Listing == IF listing = Unread THEN readdirSync(flags.base_dir) ELSE listing

getPathFromBaseDir == normalize(flags.path)

isFile == lstatSync(getAbsolutePath) = "file"

isDirectory == lstatSync(getAbsolutePath) = "dir"

getPathAsDirectory == IF isFile THEN parse(getPathFromBaseDir).dir ELSE getPathFromBaseDir

isWorkspaceRelative(path) ==
  LET firstSegment == Split(normalize(path), "/")[1]
  IN firstSegment \in Range(Listing)

resolveRelativeToWorkspace(path) ==
  IF isWorkspaceRelative(path) THEN path ELSE join(getPathAsDirectory, path)

\* what a call that recursed MaxRecursion times returns in the model: the
\* RangeError of an exhausted call stack
RangeError == <<"<RangeError>">>

MaxRecursion == 4

RECURSIVE resolveAbsoluteRec(_, _)
resolveAbsoluteRec(path, fuel) ==
  IF isAbsolute(path) THEN path
  ELSE IF isWorkspaceRelative(path) THEN join(flags.base_dir, path)
  ELSE IF fuel = 0 THEN RangeError
  ELSE resolveAbsoluteRec(resolveRelativeToWorkspace(path), fuel - 1)

resolveAbsolute(path) == resolveAbsoluteRec(path, MaxRecursion)

\* the number of times resolveAbsolute calls itself for path
RECURSIVE resolveAbsoluteHops(_, _)
resolveAbsoluteHops(path, fuel) ==
  IF isAbsolute(path) \/ isWorkspaceRelative(path) \/ fuel = 0 THEN 0
  ELSE 1 + resolveAbsoluteHops(resolveRelativeToWorkspace(path), fuel - 1)

\* Workspace.readDirectory
readDirectory ==
  IF ~isDirectory THEN <<>>
  ELSE LET names == readdirSync(getAbsolutePath)
       IN [i \in 1..Len(names) |-> resolveRelativeToWorkspace(names[i])]

(***************************************************************************)
(* Workspace: label resolution.  A resolution yields                       *)
(*   label : the Label returned, or undefined                              *)
(*   err   : "" or the name of the error thrown                            *)
(*   trace : the strategies that ran, in order                             *)
(*   cache : fileQueryResultCache after the call                           *)
(***************************************************************************)
Result(label, err, trace, cache) ==
  [label |-> label, err |-> err, trace |-> trace, cache |-> cache]

\* the lookup of tryResolveLabelFromStaticMapping, once the key is known
staticLookup(key, defaultValue) ==
  IF key \notin DOMAIN flags.label_mapping
    THEN IF defaultValue # <<>> THEN Label_parseAbsolute(defaultValue) ELSE undefined
    ELSE Label_parseAbsolute(flags.label_mapping[key])

\* mutant: the specifier is looked up as written, a relative one too
tryResolveAsWritten(imp, defaultValue, relativePrefix) == staticLookup(imp, defaultValue)


tryResolveLabelFromStaticMapping(imp, defaultValue, relativePrefix) ==
  staticLookup(IF relativePrefix # <<>> /\ StartsWith(imp, relativePrefix)
                 THEN resolveRelativeToWorkspace(imp) ELSE imp,
               defaultValue)

\* mutant: the entry is stored under the name of the file, not its path
cacheSetByName(cache, file, label) ==
  [f \in DOMAIN cache \cup {parse(file).base} |->
     IF f = parse(file).base THEN label ELSE cache[f]]

\* the cache entry queryForFile adds
cacheSet(cache, file, label) ==
  [f \in DOMAIN cache \cup {file} |-> IF f = file THEN label ELSE cache[f]]

\* q is what the query subprocess answers when it is run: [code, stdout]
queryForFile(file, cache, q) ==
  IF file \in DOMAIN cache
    THEN Result(cache[file], "", <<"cache">>, cache)
  ELSE IF q.code = 0 /\ q.stdout # <<>>
    THEN Result(Label_parseAbsolute(q.stdout), "", <<"query">>,
                cacheSet(cache, file, Label_parseAbsolute(q.stdout)))
  ELSE Result(undefined, "", <<"query">>, cache)

\* getLabelFor, from the lstatSync on: the package is the directory of a
\* file, or the directory itself
labelOfKind(path, target, kind) ==
  IF kind = "none" THEN [label |-> undefined, err |-> "ENOENT"]
  ELSE [label |-> Label_parseAbsolute(
                    <<"/", "/">> \o (IF kind = "file" THEN parse(path).dir ELSE path)
                    \o (IF target # <<>> THEN <<":">> \o target ELSE <<>>)),
        err |-> ""]

\* getLabelFor, once the static label and the absolute path are known
getLabelForStat(path, target, staticLabel, abs) ==
  IF staticLabel # undefined THEN [label |-> staticLabel, err |-> ""]
  ELSE IF abs = RangeError THEN [label |-> undefined, err |-> "RangeError"]
  ELSE labelOfKind(path, target, lstatSync(abs))

\* getLabelFor, once path is workspace-relative
getLabelForResolved(path, target) ==
  getLabelForStat(path, target, tryResolveLabelFromStaticMapping(path, <<>>, <<>>),
                  resolveAbsolute(path))

getLabelFor(path, target) ==
  getLabelForResolved(resolveRelativeToWorkspace(path), target)

\* the target name getLabelForFile guesses
withSeparator(snake) ==
  IF flags.suffix_separator # <<"-">>
    THEN replaceDashes(snake, flags.suffix_separator) ELSE snake

withSuffix(snake, suffix) ==
  IF suffix # <<>> THEN snake \o flags.suffix_separator \o suffix ELSE snake

guessLabel(path, suffix, stripFileExt) ==
  getLabelFor(parse(path).dir,
              withSuffix(withSeparator(kebabCase(IF stripFileExt THEN parse(path).name
                                                                 ELSE parse(path).base)),
                         suffix))

\* a query that is not made
notQueried(cache) == Result(undefined, "", <<>>, cache)

\* mutant: the query is asked before the static mapping
fileCascadeQueryFirst(staticLabel, query, guess, cache) ==
  IF query.label # undefined
    THEN Result(query.label, "", <<"fileStatic">> \o query.trace, query.cache)
  ELSE IF staticLabel # undefined
    THEN Result(staticLabel, "", <<"fileStatic">> \o query.trace, query.cache)
  ELSE Result(guess.label, guess.err,
              <<"fileStatic">> \o query.trace \o <<"heuristic">>, query.cache)

\* getLabelForFile: the first of the static label, the queried label and
\* the guess
fileCascade(staticLabel, query, guess, cache) ==
  IF staticLabel # undefined
    THEN Result(staticLabel, "", <<"fileStatic">>, cache)
  ELSE IF query.label # undefined
    THEN Result(query.label, "", <<"fileStatic">> \o query.trace, query.cache)
  ELSE Result(guess.label, guess.err,
              <<"fileStatic">> \o query.trace \o <<"heuristic">>, query.cache)

\* getLabelForFile, once path is workspace-relative
getLabelForFileResolved(path, suffix, stripFileExt, cache, q) ==
  fileCascade(tryResolveLabelFromStaticMapping(path, <<>>, <<>>),
              IF flags.use_bazel_query THEN queryForFile(path, cache, q)
                                       ELSE notQueried(cache),
              guessLabel(path, suffix, stripFileExt),
              cache)

getLabelForFile(path, suffix, stripFileExt, cache, q) ==
  getLabelForFileResolved(resolveRelativeToWorkspace(path), suffix, stripFileExt, cache, q)

(***************************************************************************)
(* TsGenerator                                                             *)
(***************************************************************************)
\* posix.join(...parts)
posixJoinParts(parts) ==
  IF SelectSeq(parts, LAMBDA p : p # <<>>) = <<>> THEN Dot
  ELSE normalize(JoinWith(SelectSeq(parts, LAMBDA p : p # <<>>), "/"))

ScopedSegments == 2
PlainSegments == 1

\* pathParts.slice(0, n)
slice(parts, n) == SubSeq(parts, 1, IF Len(parts) < n THEN Len(parts) ELSE n)

\* mutant: deep imports are not stripped
reducedPathedWhole(imp) == posixJoinParts(Split(imp, "/"))

\* the package a deep import belongs to: the first two segments of a scoped
\* specifier, the first segment of any other
reducedPathed(imp) ==
  posixJoinParts(slice(Split(imp, "/"),
                       IF StartsWith(imp, <<"@">>) THEN ScopedSegments ELSE PlainSegments))

\* calculateTsDependencyLabel, given the static label of the specifier and
\* the label of its file
dependencyCascade(imp, npmWorkspace, cache, label, file) ==
  IF label # undefined THEN Result(label, "", <<"static">>, cache)
  ELSE IF isWorkspaceRelative(imp) \/ StartsWith(imp, Dot) THEN
    IF file.label # undefined \/ file.err # ""
      THEN Result(file.label, file.err, <<"static">> \o file.trace, file.cache)
      ELSE Result(undefined, "Unable to generate label",
                  <<"static">> \o file.trace, file.cache)
  ELSE Result(Label_parseAbsolute(<<"@">> \o npmWorkspace \o <<"/", "/">>
                                  \o reducedPathed(imp)),
              "", <<"static", "npm">>, cache)

calculateTsDependencyLabel(imp, npmWorkspace, cache, q) ==
  dependencyCascade(imp, npmWorkspace, cache,
                    tryResolveLabelFromStaticMapping(imp, <<>>, Dot),
                    getLabelForFile(imp \o TsExt, <<>>, TRUE, cache, q))

\* moduleSpecifier.getText().split(`'`)[1]: the text between the first two
\* single quotes of the literal as written in the source; undefined when the
\* literal is written with double quotes
UndefinedText == <<"<undefined>">>

moduleSpecifierTextOf(decl) ==
  IF decl.quote = "'" THEN decl.text ELSE UndefinedText

\* path.endsWith('.ts') ? path : path + '.ts'
withTsExt(path) == IF EndsWith(path, TsExt) THEN path ELSE path \o TsExt

\* mutant: no check against the files of the rule
resolveTextUnchecked(moduleSpecifierText, files, npmWorkspace, cache, q) ==
  IF moduleSpecifierText = UndefinedText
    THEN Result(undefined, "TypeError", <<>>, cache)
  ELSE calculateTsDependencyLabel(moduleSpecifierText, npmWorkspace, cache, q)

\* resolveLabelFromModuleSpecifier, once the text of the specifier is known
resolveText(moduleSpecifierText, files, npmWorkspace, cache, q) ==
  IF moduleSpecifierText = UndefinedText
    THEN Result(undefined, "TypeError", <<>>, cache)
  ELSE IF withTsExt(resolveRelativeToWorkspace(moduleSpecifierText)) \in Range(files)
    THEN Result(undefined, "", <<>>, cache)
  ELSE calculateTsDependencyLabel(moduleSpecifierText, npmWorkspace, cache, q)

resolveLabelFromModuleSpecifier(decl, files, npmWorkspace, cache, q) ==
  resolveText(moduleSpecifierTextOf(decl), files, npmWorkspace, cache, q)

\* mutant: an array push in place of Set.prototype.add
SetAddAlways(set, x) == Append(set, x)

\* Set.prototype.add on a Set<string>, kept in insertion order
SetAdd(set, x) == IF x \in Range(set) THEN set ELSE Append(set, x)

RECURSIVE SetAddAll(_, _)
SetAddAll(set, xs) ==
  IF xs = <<>> THEN set ELSE SetAddAll(SetAdd(set, Head(xs)), Tail(xs))

\* tsquery(ast, QUERY).map(node => resolveLabelFromModuleSpecifier(...)):
\* the declarations are resolved in source order, and the first call that
\* throws ends the map.  Yields the calls made, the error and the cache.
\* memo holds the outcome of resolveLabelFromModuleSpecifier for every
\* declaration of memo.decls under the cache memo.cache, computed once per
\* file: a call made under that cache reads its outcome there.
Call(decl, r) == [decl |-> decl, label |-> r.label, err |-> r.err, trace |-> r.trace]

RECURSIVE mapResolve(_, _, _, _, _, _, _)
RECURSIVE mapResolveNext(_, _, _, _, _, _, _)
mapResolve(decls, files, npmWorkspace, cache, q, done, memo) ==
  IF decls = <<>> THEN [calls |-> done, err |-> "", cache |-> cache]
  ELSE mapResolveNext(decls, files, npmWorkspace, q, done, memo,
         IF cache = memo.cache
           THEN memo.outcome[CHOOSE i \in 1..Len(memo.decls) : memo.decls[i] = Head(decls)]
           ELSE resolveLabelFromModuleSpecifier(Head(decls), files, npmWorkspace, cache, q))

mapResolveNext(decls, files, npmWorkspace, q, done, memo, r) ==
  IF r.err # ""
    THEN [calls |-> Append(done, Call(Head(decls), r)), err |-> r.err, cache |-> r.cache]
    ELSE mapResolve(Tail(decls), files, npmWorkspace, r.cache, q,
                    Append(done, Call(Head(decls), r)), memo)

\* the labels of the calls that returned one, as strings
labelStrings(kept) == [i \in 1..Len(kept) |-> Label_toString(kept[i].label)]

\* .filter(label => !!label).forEach(label => labels.add(label.toString()))
addLabels(labels, cs) ==
  SetAddAll(labels, labelStrings(SelectSeq(cs, LAMBDA c : c.label # undefined)))

\* processTsFileAst, after both maps
fileDone(labels1, importCalls, exports) ==
  IF exports.err # ""
    THEN [labels |-> labels1, err |-> exports.err, cache |-> exports.cache,
          calls |-> importCalls \o exports.calls]
    ELSE [labels |-> addLabels(labels1, exports.calls), err |-> "",
          cache |-> exports.cache, calls |-> importCalls \o exports.calls]

\* processTsFileAst, after the map over the import declarations
processExports(ast, files, npmWorkspace, labels, q, memo, imports) ==
  IF imports.err # ""
    THEN [labels |-> labels, err |-> imports.err, cache |-> imports.cache,
          calls |-> imports.calls]
    ELSE fileDone(addLabels(labels, imports.calls), imports.calls,
                  mapResolve(ast.exports, files, npmWorkspace, imports.cache, q, <<>>, memo))

\* processTsFileAst: the import declarations, then the export declarations
processTsFileAst(ast, files, npmWorkspace, labels, cache, q, memo) ==
  processExports(ast, files, npmWorkspace, labels, q, memo,
                 mapResolve(ast.imports, files, npmWorkspace, cache, q, <<>>, memo))

\* files.filter(endsWith('.ts')).filter(!(ignore_spec_files && endsWith('.spec.ts')))
filterTsFiles(files) ==
  SelectSeq(files, LAMBDA f :
    EndsWith(f, TsExt) /\ ~(flags.ignore_spec_files /\ EndsWith(f, SpecTsExt)))

getLabelForPath == getLabelFor(flags.path, <<>>)

(***************************************************************************)
(* Buildozer: the commands of one rule, in the order the builder calls     *)
(* were made                                                               *)
(***************************************************************************)
newTsLibraryRuleOf(label, srcs, depLabels) ==
  <<[target |-> label, op |-> "new", args |-> <<<<"ts_library">>>>],
    [target |-> label, op |-> "set srcs", args |-> srcs],
    [target |-> label, op |-> "add deps", args |-> depLabels]>>

\* the rule generate builds: setTsconfig and setVisibility when the flags
\* name them
newTsLibraryRule(label, srcs, depLabels) ==
  newTsLibraryRuleOf(label, srcs, depLabels)
  \o (IF flags.ts_config_label # <<>>
        THEN <<[target |-> label, op |-> "set tsconfig", args |-> <<flags.ts_config_label>>]>>
        ELSE <<>>)
  \o (IF flags.default_visibility # <<>>
        THEN <<[target |-> label, op |-> "set visibility", args |-> <<flags.default_visibility>>]>>
        ELSE <<>>)

\* Buildozer.toCommands
toCommands == commands

(***************************************************************************)
(* The inputs of the model                                                 *)
(***************************************************************************)
MaxDecls == 2   \* import and export declarations in the files of the directory

BaseDir == <<"/", "ws">>
Src == <<"src">>
Lib == <<"lib">>

Abs(rel) == BaseDir \o <<"/">> \o rel
File(rel) == [path |-> Abs(rel), kind |-> "file"]
Dir(rel) == [path |-> Abs(rel), kind |-> "dir"]

A_ts == <<"a", ".", "ts">>
B_ts == <<"b", ".", "ts">>
B_spec_ts == <<"b", ".", "spec", ".", "ts">>
Src_ts == <<"src", ".", "ts">>
X_y_ts == <<"x", ".", "y", ".", "ts">>

In(dir, name) == dir \o <<"/">> \o name

LibTree == <<Dir(Lib), File(In(Lib, X_y_ts))>>

\* src/ holds a.ts and b.ts
TreeAB == <<[path |-> BaseDir, kind |-> "dir"]>> \o LibTree
          \o <<Dir(Src), File(In(Src, A_ts)), File(In(Src, B_ts))>>

\* the same, with a file a.ts at the top level of the workspace as well
TreeABTop == <<[path |-> BaseDir, kind |-> "dir"], File(A_ts)>> \o LibTree
             \o <<Dir(Src), File(In(Src, A_ts)), File(In(Src, B_ts))>>

\* src/ holds b.spec.ts and src.ts
TreeSpec == <<[path |-> BaseDir, kind |-> "dir"]>> \o LibTree
            \o <<Dir(Src), File(In(Src, B_spec_ts)), File(In(Src, Src_ts))>>

Trees == {TreeAB, TreeABTop, TreeSpec}

Sq(text) == [quote |-> "'", text |-> text]
Dq(text) == [quote |-> "\"", text |-> text]

ImpB == <<".", "/", "b">>
ImpLodash == <<"lodash">>
ImpLodashFp == <<"lodash", "/", "fp">>
ImpScoped == <<"@", "scope", "/", "pkg", "/", "deep">>
ImpLibXY == <<"lib", "/", "x", ".", "y">>
ImpMissing == <<".", "/", "missing">>
ImpNoDir == <<".", "/", "nodir", "/", "y">>
ImpSrc == <<".", "/", "src">>

DeclList == <<Sq(ImpB), Sq(ImpLodash), Sq(ImpLodashFp), Sq(ImpScoped), Sq(ImpLibXY),
             Sq(ImpMissing), Sq(ImpNoDir), Sq(ImpSrc), Dq(ImpLodash)>>

Decls == Range(DeclList)

SeqsUpTo(S, n) == UNION {[1..k -> S] : k \in 0..n}

\* the import and export declarations a source file can hold, n of them at most
Asts(n) ==
  UNION {{[imports |-> SubSeq(ds, 1, k), exports |-> SubSeq(ds, k + 1, Len(ds))] :
            k \in 0..Len(ds)} : ds \in SeqsUpTo(Decls, n)}

LblThirdParty == <<"/", "/", "third_party", "/", "lodash", ":", "lodash_lib">>
LblLibM == <<"/", "/", "lib", ":", "m">>
LblOtherX == <<"/", "/", "other", ":", "x">>
LblLibM2 == <<"/", "/", "lib", ":", "m2">>
LblQueried == <<"/", "/", "lib", ":", "queried">>

NoMapping == <<>>
MappingByImport == (ImpLodash :> LblThirdParty) @@ (<<"src", "/", "missing">> :> LblLibM)
                   @@ (ImpLibXY :> LblOtherX)
MappingByFile == (<<"src", "/", "missing", ".", "ts">> :> LblLibM2)

Mappings == {NoMapping, MappingByImport, MappingByFile}

\* what the query subprocess can answer
QueryOutcomes == {[code |-> 1, stdout |-> <<>>], [code |-> 0, stdout |-> <<>>],
                  [code |-> 0, stdout |-> LblQueried]}

\* the answer of a query subprocess that is never run
NoQuery == [code |-> 1, stdout |-> <<>>]

\* the exit codes of the editor subprocess
ExitCodes == {0, 1, 3}

CliArgs == {Src, <<".", ".", "/", "src">>, DotDot}

NoPath == <<"<no path>">>

DefaultFlags ==
  [path |-> NoPath, base_dir |-> BaseDir, label_mapping |-> NoMapping,
   use_bazel_query |-> FALSE, ignore_spec_files |-> TRUE, suffix_separator |-> <<"-">>,
   npm_workspace_name |-> <<"npm">>, build_file_name |-> <<"BUILD">>,
   buildozer_commands_file |-> <<"commands", ".", "txt">>,
   generate_build_files |-> TRUE, nuke_build_file |-> FALSE, clean_commands_file |-> TRUE,
   ts_config_label |-> <<>>, default_visibility |-> <<>>]

\* the configurations of a generation run: the flags resolution reads vary
GenerateFlags ==
  {[DefaultFlags EXCEPT !.label_mapping = m, !.use_bazel_query = uq,
                        !.ignore_spec_files = sp[1], !.suffix_separator = sp[2]] :
     m \in Mappings, uq \in BOOLEAN, sp \in {<<TRUE, <<"-">>>>, <<FALSE, <<"_">>>>}}

\* the configurations of an editor invocation: the flags invokeBuildozer
\* reads vary
InvokeFlags ==
  {[DefaultFlags EXCEPT !.path = Src, !.buildozer_commands_file = cf,
                        !.generate_build_files = g, !.nuke_build_file = n,
                        !.clean_commands_file = c] :
     cf \in {<<>>, <<"commands", ".", "txt">>}, g \in BOOLEAN, n \in BOOLEAN, c \in BOOLEAN}

\* the outcome of resolveLabelFromModuleSpecifier for every declaration a
\* file can hold (in the order of DeclList), under one cache and one answer
\* of the query subprocess
RECURSIVE Outcomes(_, _, _, _, _)
Outcomes(ds, files, npmWorkspace, cache, q) ==
  IF ds = <<>> THEN <<>>
  ELSE <<resolveLabelFromModuleSpecifier(Head(ds), files, npmWorkspace, cache, q)>>
       \o Outcomes(Tail(ds), files, npmWorkspace, cache, q)

Memo(files, npmWorkspace, cache, q) ==
  [cache |-> cache, decls |-> DeclList,
   outcome |-> Outcomes(DeclList, files, npmWorkspace, cache, q)]

(***************************************************************************)
(* logger                                                                  *)
(***************************************************************************)
Log(level, msg) == Append(logged, <<level, msg>>)

\* logger.fatal: prints the message and ends the process
fatal(msg) == [logged |-> Log("fatal", msg), pc |-> "exit"]

(***************************************************************************)
(* Actions                                                                 *)
(***************************************************************************)
Init ==
  /\ cliArg \in CliArgs
  /\ flags \in GenerateFlags
  /\ fs \in Trees
  /\ buildFile = "absent"
  /\ cmdFile = NoFile
  /\ listing = Unread
  /\ fileQueryResultCache = <<>>
  /\ commands = <<>>
  /\ pc = "args"
  /\ tsFiles = <<>>
  /\ fileIdx = 0
  /\ deps = <<>>
  /\ filesRead = <<>>
  /\ calls = <<>>
  /\ editorRuns = <<>>
  /\ logged = <<>>
  /\ results = <<>>

\* mutant: only '../' is taken for an escape
escapesBaseDirSlash(arg) == StartsWith(arg, <<".", ".", "/">>)

\* the coerce of the <path> positional
escapesBaseDir(arg) == StartsWith(arg, DotDot)

Coerce ==
  /\ pc = "args"
  /\ IF escapesBaseDir(cliArg)
       THEN /\ logged' = fatal("Path must not attempt to escape base_dir").logged
            /\ pc' = fatal("Path must not attempt to escape base_dir").pc
            /\ UNCHANGED flags
       ELSE /\ flags' = [flags EXCEPT !.path = cliArg]
            /\ pc' = "ready"
            /\ UNCHANGED logged
  /\ UNCHANGED <<cliArg, fs, buildFile, cmdFile, listing, fileQueryResultCache, commands,
                 tsFiles, fileIdx, deps, filesRead, calls, editorRuns, results>>

\* generate, up to the loop over the files
GenerateStart ==
  /\ pc = "ready"
  /\ tsFiles' = filterTsFiles(readDirectory)
  /\ listing' = Listing
  /\ deps' = <<>>
  /\ fileIdx' = 1
  /\ pc' = "processing"
  /\ UNCHANGED <<cliArg, flags, fs, buildFile, cmdFile, fileQueryResultCache, commands,
                 filesRead, calls, editorRuns, logged, results>>

\* one turn of the loop: processFile on the next file, whose declarations
\* are ast; an error thrown ends generate
ProcessFile ==
  /\ pc = "processing"
  /\ fileIdx <= Len(tsFiles)
  /\ \E q \in (IF flags.use_bazel_query THEN QueryOutcomes ELSE {NoQuery}) :
     \E abs \in {resolveAbsolute(tsFiles[fileIdx])},
        memo \in {Memo(tsFiles, flags.npm_workspace_name, fileQueryResultCache, q)} :
     \E ast \in Asts(MaxDecls - Len(calls)) :
     \E r \in {processTsFileAst(ast, tsFiles, flags.npm_workspace_name, deps,
                                fileQueryResultCache, q, memo)} :
          /\ filesRead' = Append(filesRead, abs)
          /\ IF lstatSync(abs) # "file"
               THEN /\ pc' = "threw"
                    /\ logged' = Log("error", "readFileSync")
                    /\ UNCHANGED <<deps, fileQueryResultCache, calls, fileIdx>>
               ELSE /\ deps' = r.labels
                    /\ fileQueryResultCache' = r.cache
                    /\ calls' = calls \o r.calls
                    /\ IF r.err # ""
                         THEN /\ pc' = "threw"
                              /\ logged' = Log("error", r.err)
                              /\ UNCHANGED fileIdx
                         ELSE /\ pc' = "processing"
                              /\ fileIdx' = fileIdx + 1
                              /\ UNCHANGED logged
  /\ UNCHANGED <<cliArg, flags, fs, buildFile, cmdFile, listing, commands, tsFiles,
                 editorRuns, results>>

\* generate, after the loop: the rule is handed to the buildozer
GenerateEmit ==
  /\ pc = "processing"
  /\ fileIdx > Len(tsFiles)
  /\ \E rule \in {getLabelForPath},
        srcs \in {[i \in 1..Len(tsFiles) |-> parse(tsFiles[i]).base]} :
        IF rule.err # ""
          THEN /\ pc' = "threw"
               /\ logged' = Log("error", rule.err)
               /\ UNCHANGED commands
          ELSE /\ commands' = commands \o newTsLibraryRule(rule.label, srcs, deps)
               /\ pc' = "generated"
               /\ UNCHANGED logged
  /\ UNCHANGED <<cliArg, flags, fs, buildFile, cmdFile, listing, fileQueryResultCache,
                 tsFiles, fileIdx, deps, filesRead, calls, editorRuns, results>>

\* mutant: a build file is taken to be there already
hasBuildFileAlways == TRUE

hasBuildFileAtPath == lstatSync(getBuildFilePath) = "file"

\* mutant: the check for an empty command list is missing
noCommandsUnchecked == FALSE

\* !commands.length
noCommands == Len(toCommands) = 0

\* Workspace.invokeBuildozer; code is the exit code of the editor when it runs
InvokeBuildozer ==
  /\ pc = "generated"
  /\ pc' = "done"
  /\ \E code \in ExitCodes :
       IF flags.buildozer_commands_file = <<>>
         THEN UNCHANGED <<cmdFile, buildFile, editorRuns, logged>>
       ELSE IF noCommands
         THEN /\ logged' = Log("warn", "No buildozer commands were generated")
              /\ UNCHANGED <<cmdFile, buildFile, editorRuns>>
       ELSE IF ~flags.generate_build_files
         THEN /\ cmdFile' = toCommands
              /\ logged' = Log("log", "--no-generate_build_files set")
              /\ UNCHANGED <<buildFile, editorRuns>>
       ELSE LET touched == IF hasBuildFileAtPath /\ ~flags.nuke_build_file
                             THEN buildFile ELSE "empty"
            IN /\ editorRuns' = Append(editorRuns,
                                  [code |-> code, commandsFile |-> toCommands,
                                   buildFile |-> touched])
               /\ buildFile' = IF code = 0 THEN "edited" ELSE touched
               /\ cmdFile' = IF (code = 0 \/ code = 3) /\ flags.clean_commands_file
                               THEN NoFile ELSE toCommands
               /\ UNCHANGED logged
  /\ UNCHANGED <<cliArg, flags, fs, listing, fileQueryResultCache, commands, tsFiles,
                 fileIdx, deps, filesRead, calls, results>>

Next == Coerce \/ GenerateStart \/ ProcessFile \/ GenerateEmit \/ InvokeBuildozer

Spec == Init /\ [][Next]_vars

(***************************************************************************)
(* invokeBuildozer on its own: a Workspace whose generator has finished,   *)
(* with no command or with the commands of one rule accumulated            *)
(***************************************************************************)
LblNpmLodash == <<"@", "npm", "/", "/", "lodash">>

OneRule == newTsLibraryRuleOf(Label_parseAbsolute(<<"/", "/", "src">>), <<A_ts, B_ts>>,
                              <<LblNpmLodash>>)

InitInvoke ==
  /\ cliArg = Src
  /\ flags \in InvokeFlags
  /\ fs = TreeAB
  /\ buildFile \in {"absent", "old"}
  /\ cmdFile = NoFile
  /\ listing \in {Unread}
  /\ fileQueryResultCache = <<>>
  /\ commands \in {<<>>, OneRule}
  /\ pc = "generated"
  /\ tsFiles = <<>>
  /\ fileIdx = 0
  /\ deps = <<>>
  /\ filesRead = <<>>
  /\ calls = <<>>
  /\ editorRuns = <<>>
  /\ logged = <<>>
  /\ results = <<>>

NextInvoke == InvokeBuildozer

SpecInvoke == InitInvoke /\ [][NextInvoke]_vars

(***************************************************************************)
(* testBaseDirSupportsBazel on a fresh Workspace, before generate          *)
(***************************************************************************)
rootBuildFile == join(flags.base_dir, flags.build_file_name)

workspaceFile == join(flags.base_dir, <<"WORKSPACE">>)

\* mutant: any entry of that name will do, a directory too
statFailureAnyEntry(path, missing, notFile) ==
  IF lstatSync(path) = "none" THEN missing ELSE ""

\* the message of the fatal error one marker file raises, "" when the file
\* is a regular file: lstatSync throws for a missing one, isFile() is false
\* for any other entry
statFailure(path, missing, notFile) ==
  IF lstatSync(path) = "none" THEN missing
  ELSE IF lstatSync(path) # "file" THEN notFile
  ELSE ""

\* the message of the first fatal error of testBaseDirSupportsBazel, "" when
\* it returns true
testBaseDirFailure(buildFailure) ==
  IF buildFailure # "" THEN buildFailure
  ELSE statFailure(workspaceFile, "Missing WORKSPACE file", "WORKSPACE file is not a file")

testBaseDirSupportsBazel ==
  testBaseDirFailure(statFailure(rootBuildFile, "Missing root build file",
                                 "Root build file is not a file"))

Build == <<"BUILD">>
Build_bazel == <<"BUILD", ".", "bazel">>
\* the entry of that name and kind at the top level, if any
RootEntry(name, kind) ==
  IF kind = "none" THEN <<>> ELSE <<[path |-> Abs(name), kind |-> kind]>>

RootTrees ==
  {tree \o RootEntry(Build, b) \o RootEntry(<<"WORKSPACE">>, w) :
     tree \in Trees, b \in {"none", "file", "dir"}, w \in {"none", "file", "dir"}}

RootFlags ==
  {[DefaultFlags EXCEPT !.path = Src, !.build_file_name = n] : n \in {Build, Build_bazel}}

InitRoot ==
  /\ cliArg = Src
  /\ flags \in RootFlags
  /\ fs \in RootTrees
  /\ buildFile = "absent"
  /\ cmdFile = NoFile
  /\ listing = Unread
  /\ fileQueryResultCache = <<>>
  /\ commands = <<>>
  /\ pc = "root"
  /\ tsFiles = <<>>
  /\ fileIdx = 0
  /\ deps = <<>>
  /\ filesRead = <<>>
  /\ calls = <<>>
  /\ editorRuns = <<>>
  /\ logged = <<>>
  /\ results = <<>>

TestBaseDirSupportsBazel ==
  /\ pc = "root"
  /\ \E failure \in {testBaseDirSupportsBazel} :
       IF failure # ""
         THEN /\ logged' = fatal(failure).logged
              /\ pc' = fatal(failure).pc
              /\ UNCHANGED results
         ELSE /\ results' = Append(results, [op |-> "testBaseDirSupportsBazel",
                                              value |-> TRUE])
              /\ pc' = "ready"
              /\ UNCHANGED logged
  /\ UNCHANGED <<cliArg, flags, fs, buildFile, cmdFile, listing, fileQueryResultCache,
                 commands, tsFiles, fileIdx, deps, filesRead, calls, editorRuns>>

NextRoot == TestBaseDirSupportsBazel \/ GenerateStart

SpecRoot == InitRoot /\ [][NextRoot]_vars

(***************************************************************************)
(* The path methods of a Workspace, called from outside while the tree     *)
(* can change                                                              *)
(***************************************************************************)
MaxCalls == 2   \* calls made on one Workspace

Gen == <<"gen">>

\* the paths under analysis: a directory, the workspace root, a file
AnalysedPaths == {Src, Dot, In(Src, A_ts)}

\* the paths handed to the methods
PathArgs ==
  {Abs(In(Src, A_ts)), In(Src, A_ts), B_ts, <<".", "/">> \o B_ts, In(Gen, X_y_ts), Dot, A_ts}

PathFlags == {[DefaultFlags EXCEPT !.path = p] : p \in AnalysedPaths}

InitPaths ==
  /\ flags \in PathFlags
  /\ cliArg = flags.path
  /\ fs \in Trees
  /\ buildFile = "absent"
  /\ cmdFile = NoFile
  /\ lstatSync(getAbsolutePath) # "none"
  /\ listing = Unread
  /\ fileQueryResultCache = <<>>
  /\ commands = <<>>
  /\ pc = "ready"
  /\ tsFiles = <<>>
  /\ fileIdx = 0
  /\ deps = <<>>
  /\ filesRead = <<>>
  /\ calls = <<>>
  /\ editorRuns = <<>>
  /\ logged = <<>>
  /\ results = <<>>

Returned(op, arg, value, hops) == [op |-> op, arg |-> arg, value |-> value, hops |-> hops]

\* the calls made so far
CallsMade == Len(SelectSeq(results, LAMBDA r : r.op # "entryAppears"))

\* resolveAbsolute(path); an absolute path returns before the listing is read
ResolveAbsolute ==
  /\ CallsMade < MaxCalls
  /\ \E path \in PathArgs :
       /\ results' = Append(results,
                       Returned("resolveAbsolute", path, resolveAbsolute(path),
                                resolveAbsoluteHops(path, MaxRecursion)))
       /\ listing' = IF isAbsolute(path) THEN listing ELSE Listing
  /\ UNCHANGED <<cliArg, flags, fs, buildFile, cmdFile, fileQueryResultCache, commands, pc,
                 tsFiles, fileIdx, deps, filesRead, calls, editorRuns, logged>>

\* resolveRelativeToWorkspace(path)
ResolveRelativeToWorkspace ==
  /\ CallsMade < MaxCalls
  /\ \E path \in PathArgs :
       results' = Append(results,
                    Returned("resolveRelativeToWorkspace", path,
                             resolveRelativeToWorkspace(path), 0))
  /\ listing' = Listing
  /\ UNCHANGED <<cliArg, flags, fs, buildFile, cmdFile, fileQueryResultCache, commands, pc,
                 tsFiles, fileIdx, deps, filesRead, calls, editorRuns, logged>>

\* another process creates the directory gen at the top level of the workspace
EntryAppears ==
  /\ lstatSync(Abs(Gen)) = "none"
  /\ fs' = fs \o <<Dir(Gen)>>
  /\ results' = Append(results, Returned("entryAppears", Gen, Gen, 0))
  /\ UNCHANGED <<cliArg, flags, buildFile, cmdFile, listing, fileQueryResultCache, commands,
                 pc, tsFiles, fileIdx, deps, filesRead, calls, editorRuns, logged>>

NextPaths == ResolveAbsolute \/ ResolveRelativeToWorkspace \/ EntryAppears

SpecPaths == InitPaths /\ [][NextPaths]_vars

(***************************************************************************)
(* getLabelForFile, called from outside on one Workspace                   *)
(***************************************************************************)
\* the files whose label is asked for
FileArgs ==
  {In(Src, B_ts), <<".", "/">> \o B_ts, In(Src, <<"missing", ".", "ts">>), In(Lib, X_y_ts),
   <<"nodir", "/", "y", ".", "ts">>}

LabelFlags ==
  {[DefaultFlags EXCEPT !.path = Src, !.label_mapping = m, !.use_bazel_query = uq] :
     m \in {NoMapping, MappingByFile}, uq \in BOOLEAN}

InitLabels ==
  /\ cliArg = Src
  /\ flags \in LabelFlags
  /\ fs = TreeAB
  /\ buildFile = "absent"
  /\ cmdFile = NoFile
  /\ listing = Unread
  /\ fileQueryResultCache = <<>>
  /\ commands = <<>>
  /\ pc = "ready"
  /\ tsFiles = <<>>
  /\ fileIdx = 0
  /\ deps = <<>>
  /\ filesRead = <<>>
  /\ calls = <<>>
  /\ editorRuns = <<>>
  /\ logged = <<>>
  /\ results = <<>>

\* a call of getLabelForFile(path): file is the path it resolved, q the
\* answer the query subprocess gives if it is run, r what the call yields
LabelReturned(path, file, q, r) ==
  [op |-> "getLabelForFile", arg |-> path, file |-> file, q |-> q,
   label |-> r.label, err |-> r.err, trace |-> r.trace]

\* getLabelForFile(path)
GetLabelForFile ==
  /\ Len(results) < MaxCalls
  /\ \E path \in FileArgs, q \in QueryOutcomes :
     \E r \in {getLabelForFile(path, <<>>, TRUE, fileQueryResultCache, q)} :
       /\ results' = Append(results,
                       LabelReturned(path, resolveRelativeToWorkspace(path), q, r))
       /\ fileQueryResultCache' = r.cache
  /\ listing' = Listing
  /\ UNCHANGED <<cliArg, flags, fs, buildFile, cmdFile, commands, pc, tsFiles, fileIdx,
                 deps, filesRead, calls, editorRuns, logged>>

NextLabels == GetLabelForFile

SpecLabels == InitLabels /\ [][NextLabels]_vars

(***************************************************************************)
(* Properties                                                              *)
(***************************************************************************)
NoDuplicates(seq) == \A i, j \in 1..Len(seq) : i # j => seq[i] # seq[j]

Count(seq, x) == Cardinality({i \in 1..Len(seq) : seq[i] = x})

HasLogged(level) == \E k \in 1..Len(logged) : logged[k][1] = level

\* the call reached calculateTsDependencyLabel
Calculated(c) == c.trace # <<>>

\* the key of a specifier in the static mapping: the specifier, or its
\* workspace-relative form when it starts with '.'
StaticKey(text) ==
  IF StartsWith(text, Dot) THEN resolveRelativeToWorkspace(text) ELSE text

\* C1: a specifier whose key is in the static mapping resolves to exactly the
\* mapped Label, by the static strategy alone (no query, no heuristic),
\* whether or not a file of that name exists.
C1_StaticMappingWins ==
  \A i \in 1..Len(calls) :
    (Calculated(calls[i]) /\ StaticKey(calls[i].decl.text) \in DOMAIN flags.label_mapping)
      => /\ calls[i].label =
              Label_parseAbsolute(flags.label_mapping[StaticKey(calls[i].decl.text)])
         /\ calls[i].trace = <<"static">>
         /\ calls[i].err = ""

\* a mapped specifier whose file exists (lib/x.y.ts) and a mapped relative
\* one whose file does not (src/missing.ts), with the query enabled
C1_Witness ==
  /\ flags.use_bazel_query
  /\ \E i, j \in 1..Len(calls) :
       /\ calls[i].decl = Sq(ImpLibXY)
       /\ calls[i].label = Label_parseAbsolute(LblOtherX)
       /\ lstatSync(resolveAbsolute(ImpLibXY \o TsExt)) = "file"
       /\ calls[j].decl = Sq(ImpMissing)
       /\ calls[j].label = Label_parseAbsolute(LblLibM)
       /\ lstatSync(resolveAbsolute(ImpMissing \o TsExt)) = "none"

\* the specifier is relative: it starts with '.' or its first segment is in
\* the top-level listing
RelativeImport(text) == StartsWith(text, Dot) \/ isWorkspaceRelative(text)

\* C2: a relative specifier that is not statically mapped and whose file
\* <specifier>.ts does not exist fails with an error that ends the
\* generation, and yields no Label.
C2_MissingFileFails ==
  \A i \in 1..Len(calls) :
    (/\ Calculated(calls[i])
     /\ RelativeImport(calls[i].decl.text)
     /\ StaticKey(calls[i].decl.text) \notin DOMAIN flags.label_mapping
     /\ resolveRelativeToWorkspace(calls[i].decl.text \o TsExt) \notin DOMAIN flags.label_mapping
     /\ lstatSync(resolveAbsolute(calls[i].decl.text \o TsExt)) # "file")
      => /\ calls[i].err # ""
         /\ calls[i].label = undefined
         /\ pc = "threw"

\* the specifier of the call names a file of the rule
SelfImport(c) ==
  /\ c.decl.quote = "'"
  /\ withTsExt(resolveRelativeToWorkspace(c.decl.text)) \in Range(tsFiles)

\* the labels the calls other than self-imports returned, as strings
ContributedBy(cs) ==
  {Label_toString(cs[i].label) :
     i \in {k \in 1..Len(cs) : ~SelfImport(cs[k]) /\ cs[k].label # undefined}}

\* C3: a specifier that resolves to a file of the rule makes
\* resolveLabelFromModuleSpecifier return nothing, before any strategy runs,
\* and adds nothing to the dependency set.
C3_SelfImportSkipped ==
  [][(pc = "processing" /\ fileIdx <= Len(tsFiles)) =>
       /\ \A i \in 1..Len(calls') :
            SelfImport(calls'[i]) =>
              /\ calls'[i].label = undefined
              /\ calls'[i].err = ""
              /\ calls'[i].trace = <<>>
       /\ Range(deps') \subseteq
            Range(deps) \cup ContributedBy(SubSeq(calls', Len(calls) + 1, Len(calls')))
       /\ pc' = "processing" =>
            Range(deps') =
              Range(deps) \cup ContributedBy(SubSeq(calls', Len(calls) + 1, Len(calls')))]_vars

\* './b' in a rule that holds src/b.ts, next to an import that is resolved
C3_Witness ==
  /\ pc = "processing"
  /\ \E i, j \in 1..Len(calls) :
       /\ calls[i].decl = Sq(ImpB)
       /\ SelfImport(calls[i])
       /\ calls[i].label = undefined
       /\ calls[j].label # undefined
       /\ Range(deps) = {Label_toString(calls[j].label)}

\* C4: after the editor ran, exit code 0 or 3 with clean_commands_file set
\* removes the command file; any other exit code leaves it in place and an
\* error is reported, and the process is not aborted.
C4_ExitCodePolicy ==
  (pc = "done" /\ editorRuns # <<>>) =>
    /\ (editorRuns[1].code \in {0, 3} /\ flags.clean_commands_file) => cmdFile = NoFile
    /\ editorRuns[1].code \notin {0, 3} => (cmdFile = toCommands /\ HasLogged("error"))

\* invokeBuildozer returned and there was no command
ZeroCommandsDone == pc = "done" /\ Len(commands) = 0

\* invokeBuildozer wrote no file, touched no build file, ran no editor
NothingDone ==
  cmdFile = NoFile /\ editorRuns = <<>> /\ buildFile \in {"absent", "old"}

\* C5 as stated: with zero commands a warning is emitted, no command file is
\* written, no build file is touched and no editor is run.
C5_WarningAlways == ZeroCommandsDone => (HasLogged("warn") /\ NothingDone)

\* C5: with zero commands nothing is written, touched or run; the warning is
\* emitted exactly when a commands file path is configured.
C5_ZeroCommands ==
  ZeroCommandsDone =>
    /\ NothingDone
    /\ flags.buildozer_commands_file # <<>>
         => logged = <<<<"warn", "No buildozer commands were generated">>>>
    /\ flags.buildozer_commands_file = <<>> => logged = <<>>

C5_Witness ==
  ZeroCommandsDone /\ flags.buildozer_commands_file # <<>> /\ HasLogged("warn")

\* the first two segments of a scoped specifier, the first of any other
PackagePrefix(text) ==
  IF text[1] = "@"
    THEN JoinWith(SubSeq(Split(text, "/"), 1, IF Len(Split(text, "/")) < 2
                                                THEN Len(Split(text, "/")) ELSE 2), "/")
    ELSE Split(text, "/")[1]

\* C6: a specifier with no static mapping, not starting with '.', whose first
\* segment is not in the top-level listing resolves to @<npm_workspace_name>//<prefix>
\* with no target appended.
C6_NpmLabel ==
  \A i \in 1..Len(calls) :
    (/\ Calculated(calls[i])
     /\ StaticKey(calls[i].decl.text) \notin DOMAIN flags.label_mapping
     /\ ~StartsWith(calls[i].decl.text, Dot)
     /\ Split(calls[i].decl.text, "/")[1] \notin Range(Listing))
      => /\ calls[i].err = ""
         /\ calls[i].label =
              [repository |-> flags.npm_workspace_name,
               package |-> PackagePrefix(calls[i].decl.text),
               target |-> LastSegment(PackagePrefix(calls[i].decl.text))]
         /\ Label_toString(calls[i].label) =
              <<"@">> \o flags.npm_workspace_name \o <<"/", "/">>
              \o PackagePrefix(calls[i].decl.text)

\* '@scope/pkg/deep' and 'lodash/fp' in one file
C6_Witness ==
  \E i, j \in 1..Len(calls) :
    /\ calls[i].decl = Sq(ImpScoped)
    /\ Label_toString(calls[i].label) = <<"@", "npm", "/", "/", "@", "scope", "/", "pkg">>
    /\ calls[j].decl = Sq(ImpLodashFp)
    /\ Label_toString(calls[j].label) = LblNpmLodash

\* C7: the dependency set holds no label twice, every label a call of a
\* processed file returned is in it exactly once, and addDeps is handed that
\* set.
C7_DepsAreASet ==
  /\ NoDuplicates(deps)
  /\ pc # "threw" =>
       \A i \in 1..Len(calls) :
         calls[i].label # undefined => Count(deps, Label_toString(calls[i].label)) = 1
  /\ \A k \in 1..Len(commands) :
       commands[k].op = "add deps" => commands[k].args = deps /\ NoDuplicates(commands[k].args)

\* two different specifiers of one file with the same Label
C7_Witness ==
  /\ pc = "processing"
  /\ \E i, j \in 1..Len(calls) :
       /\ calls[i].decl.text # calls[j].decl.text
       /\ calls[i].label # undefined
       /\ calls[i].label = calls[j].label
       /\ Count(deps, Label_toString(calls[i].label)) = 1

\* C8: the dependency set handed to addDeps never holds the label of the
\* rule being generated.
C8_NoSelfDependency ==
  \A k \in 1..Len(commands) :
    commands[k].op = "add deps" =>
      Label_toString(commands[k].target) \notin Range(commands[k].args)

\* the names of the files of the analysed directory that generate keeps
ExpectedSrcs ==
  SelectSeq(readdirSync(getAbsolutePath), LAMBDA f :
    EndsWith(f, TsExt) /\ ~(flags.ignore_spec_files /\ EndsWith(f, SpecTsExt)))

\* C9: a generate pass creates one rule, scoped to the default target of the
\* directory, whose srcs are the names of the .ts files of the directory and
\* whose deps are the labels resolved from the imports of those files.
C9_OneRule ==
  pc = "generated" =>
    /\ Len(SelectSeq(commands, LAMBDA c : c.op = "new")) = 1
    /\ \A k \in 1..Len(commands) :
         /\ commands[k].target = Label_parseAbsolute(<<"/", "/">> \o flags.path)
         /\ commands[k].op = "set srcs" => commands[k].args = ExpectedSrcs
         /\ commands[k].op = "add deps" => commands[k].args = deps
    /\ filesRead = [i \in 1..Len(ExpectedSrcs) |-> join(getAbsolutePath, ExpectedSrcs[i])]

RootIsWorkspace ==
  lstatSync(rootBuildFile) = "file" /\ lstatSync(workspaceFile) = "file"

C12_ResolveAbsoluteTerminates ==
  \A k \in 1..Len(results) :
    results[k].op = "resolveAbsolute" =>
      (results[k].value # RangeError /\ results[k].hops <= 1)

\* the first segment of the normalised path
FirstSegment(path) == Split(normalize(path), "/")[1]

Answered(q) == q.code = 0 /\ q.stdout # <<>>

\* call k ran the query subprocess and it named a rule
QueriedWell(k) == "query" \in Range(results[k].trace) /\ Answered(results[k].q)

\* an earlier call than k got the label of the same path from the query
AnsweredBefore(k) ==
  \E j \in 1..(k - 1) : results[j].file = results[k].file /\ QueriedWell(j)

\* the path of call k is in the static mapping
Mapped(k) == results[k].file \in DOMAIN flags.label_mapping

\* C13: getLabelForFile tries the static mapping, then the query, then the
\* heuristic, and the first Label wins: the query is run only when
\* use_bazel_query is set and the mapping missed, a query that fails or
\* answers nothing falls through to the heuristic, and a query that answers
\* is returned without the heuristic.
C13_CascadeOrder ==
  \A k \in 1..Len(results) :
    results[k].op = "getLabelForFile" =>
      /\ results[k].trace[1] = "fileStatic"
      /\ "query" \in Range(results[k].trace) => (flags.use_bazel_query /\ ~Mapped(k))
      /\ Mapped(k) =>
           /\ results[k].trace = <<"fileStatic">>
           /\ results[k].label = Label_parseAbsolute(flags.label_mapping[results[k].file])
      /\ (~Mapped(k) /\ ~flags.use_bazel_query) =>
           results[k].trace = <<"fileStatic", "heuristic">>
      /\ (~Mapped(k) /\ flags.use_bazel_query /\ ~AnsweredBefore(k)) =>
           IF Answered(results[k].q)
             THEN /\ results[k].trace = <<"fileStatic", "query">>
                  /\ results[k].label = Label_parseAbsolute(results[k].q.stdout)
                  /\ results[k].err = ""
             ELSE results[k].trace = <<"fileStatic", "query", "heuristic">>
      /\ "heuristic" \in Range(results[k].trace) =>
           /\ results[k].label = guessLabel(results[k].file, <<>>, TRUE).label
           /\ results[k].err = guessLabel(results[k].file, <<>>, TRUE).err

\* one query that names a rule and one that fails, on one Workspace
C13_Witness ==
  \E j, k \in 1..Len(results) :
    /\ results[j].trace = <<"fileStatic", "query">>
    /\ results[j].label = Label_parseAbsolute(LblQueried)
    /\ results[k].trace = <<"fileStatic", "query", "heuristic">>
    /\ results[k].q.code = 1
    /\ results[k].label = Label_parseAbsolute(<<"/", "/", "lib", ":", "x", "-", "y">>)

\* C15: every entry of the query cache is the Label a query for exactly that
\* path answered; a call for a path in the cache returns the entry without
\* running the query; a query that fails or answers nothing adds no entry.
C15_CacheIsFaithful ==
  /\ \A f \in DOMAIN fileQueryResultCache :
       \E k \in 1..Len(results) :
         /\ results[k].file = f
         /\ QueriedWell(k)
         /\ fileQueryResultCache[f] = Label_parseAbsolute(results[k].q.stdout)
  /\ \A k \in 1..Len(results) :
       /\ QueriedWell(k) => results[k].file \in DOMAIN fileQueryResultCache
       /\ (AnsweredBefore(k) /\ ~Mapped(k)) =>
            /\ results[k].trace = <<"fileStatic", "cache">>
            /\ results[k].label = fileQueryResultCache[results[k].file]
       /\ "cache" \in Range(results[k].trace) => AnsweredBefore(k)

\* src/b.ts is answered by the query, then asked again as ./b.ts while the
\* query would fail
C15_Witness ==
  /\ Len(results) = 2
  /\ results[1].arg = In(Src, B_ts)
  /\ QueriedWell(1)
  /\ results[2].arg = <<".", "/">> \o B_ts
  /\ results[2].q.code = 1
  /\ results[2].trace = <<"fileStatic", "cache">>
  /\ results[2].label = Label_parseAbsolute(LblQueried)
  /\ DOMAIN fileQueryResultCache = {In(Src, B_ts)}

\* a commands file path is configured, there is a command, and
\* generate_build_files is set
EditorDue ==
  flags.buildozer_commands_file # <<>> /\ Len(commands) > 0 /\ flags.generate_build_files

====
